---- MODULE Spec2Model ----
(***************************************************************************)
(* SoilVision training pipeline (train_model.py): main() drives            *)
(* validate_dataset -> create_data_generators -> build_model ->            *)
(* train_model (Keras fit with EarlyStopping, ReduceLROnPlateau,           *)
(* ModelCheckpoint) -> evaluate_model -> save_model_and_metadata ->        *)
(* convert_to_coreml, and exits with status 1 on the first exception.      *)
(*                                                                         *)
(* Units.  Validation loss is an integer number of loss units, with        *)
(* ReduceLROnPlateau's min_delta (1e-4) equal to LossResolution units.     *)
(* The learning rate is an integer number of 1e-7 / 2^14, so that the      *)
(* fourteen halvings that separate 0.001 from the floor 1e-7 are exact.    *)
(* Class indices and sequence positions are 1-based.                       *)
(***************************************************************************)
EXTENDS Integers, Sequences, FiniteSets, TLC

VARIABLES
  data,            \* the dataset root on disk: [root, entry, images]
  args,            \* parsed command line: [epochs, batch_size]
  env,             \* the installed libraries and what the data can yield
  pc,              \* main()'s position
  err,             \* the exception main() caught ("none" while running)
  missing_classes, \* the set named by validate_dataset's ValueError
  EPOCHS,          \* module global, overwritten by main()
  BATCH_SIZE,      \* module global, overwritten by main()
  class_indices,   \* train_generator.class_indices, as the label of each index
  val_classes,     \* validation_generator.classes (true index per sample)
  built,           \* self.model is not None
  weights,         \* self.model's parameter set
  lr,              \* the optimizer's learning rate
  stop_training,   \* self.model.stop_training
  epoch,           \* epochs fit() has completed
  es,              \* EarlyStopping: [best, wait, best_weights, stopped_epoch]
  rlr,             \* ReduceLROnPlateau: [best, wait]
  mc,              \* ModelCheckpoint: [best]
  history,         \* History callback / self.history
  evaluation,      \* evaluate_model's result
  files,           \* the output directory: [ckpt, model, meta, bundle]
  coreml,          \* what trainer.convert_to_coreml() returned
  cargs,           \* convert_to_coreml.py: parsed command line
  cenv,            \* convert_to_coreml.py: the installed coremltools
  cpc,             \* convert_to_coreml.py: main()'s position
  call,            \* convert_to_coreml.py: arguments of convert_to_coreml
  output_path,     \* convert_to_coreml.py: output_path in convert_to_coreml
  fs,              \* convert_to_coreml.py: the files it reads and writes
  returned         \* convert_to_coreml.py: what convert_to_coreml returned

\* The state of train_model.py and of the standalone convert_to_coreml.py.
trainer_vars == <<data, args, env, pc, err, missing_classes, EPOCHS,
                  BATCH_SIZE, class_indices, val_classes, built, weights, lr,
                  stop_training, epoch, es, rlr, mc, history, evaluation,
                  files, coreml>>

converter_vars == <<cargs, cenv, cpc, call, output_path, fs, returned>>

vars == <<trainer_vars, converter_vars>>

----------------------------------------------------------------------------
(* Program constants *)

SOIL_TYPES == <<"clay", "loam", "sandy", "silt", "peat", "chalk">>

NUM_CLASSES == Len(SOIL_TYPES)

DEFAULT_EPOCHS == 50

DEFAULT_BATCH_SIZE == 32

VALIDATION_SPLIT_PERCENT == 20

ES_PATIENCE == 10

RLR_PATIENCE == 5

\* min_lr=1e-7, in learning-rate units of 1e-7 / 2^14.
MIN_LR == 16384

\* Adam(learning_rate=0.001): 0.001 = 10000 * 1e-7.
INITIAL_LR == 10000 * MIN_LR

----------------------------------------------------------------------------
(* Bounds of the model *)

\* Loss units per ReduceLROnPlateau min_delta (1e-4).
LossResolution == 7

\* At most this many category entries of a dataset root are not directories.
MaxDeviations == 2

SmallBudget == 2

MidBudget == 12

LongBudget == 72

SmallBatch == 4

SmallImages == 5

LargeImages == 15

\* Longest source model path given to the standalone converter.
MaxPathLen == 4

----------------------------------------------------------------------------
(* Values *)

Names == {SOIL_TYPES[i] : i \in 1..NUM_CLASSES}

\* np.Inf as the initial "best" of a monitor that is minimised.
Inf == 100 * (LossResolution + 2)

Range(s) == {s[i] : i \in 1..Len(s)}

Max2(a, b) == IF a >= b THEN a ELSE b

\* The parameter set after `ep` epochs; `skill` is how many classes (by
\* pipeline index) it tells apart: it predicts the true class of a sample
\* whose index is at most `skill`, and index 1 otherwise (arg-max ties go
\* to the lowest index).
Weights(ep, skill) == [ep |-> ep, skill |-> skill]

\* best_weights = None
NoWeights == Weights(0 - 1, 0)

\* The untrained parameter set of build_model.
InitialWeights == Weights(0, 1)

NoFile == [exists |-> FALSE, weights |-> NoWeights]

NoMeta == [state |-> "absent", soil_types |-> <<>>, num_classes |-> 0,
           epochs |-> 0, batch_size |-> 0]

NoBundle == [exists |-> FALSE, labels |-> <<>>, weights |-> NoWeights]

NoEvaluation == [done |-> FALSE, correct |-> 0, total |-> 0,
                 labels |-> {}, cm |-> <<>>]

EmptyHistory == [epochs |-> 0, val_loss |-> Inf, min_loss |-> Inf,
                 min_loss_epoch |-> 0, max_acc |-> 0 - 1, max_acc_epoch |-> 0]

EarlyStoppingInit == [best |-> Inf, wait |-> 0, best_weights |-> NoWeights,
                      stopped_epoch |-> 0]

ReduceLRInit == [best |-> Inf, wait |-> 0]

ModelCheckpointInit == [best |-> 0 - 1]

----------------------------------------------------------------------------
(* The dataset on disk and the command line *)

Kinds == {"absent", "dir", "file"}

Deviations(entry) == Cardinality({n \in Names : entry[n] # "dir"})

\* A root that does not exist has no entries.
NoRoot == [root |-> FALSE, entry |-> [n \in Names |-> "absent"],
           images |-> [n \in Names |-> 0]]

Root(entry, count) ==
  [root |-> TRUE, entry |-> entry,
   images |-> [n \in Names |-> IF entry[n] = "dir" THEN count ELSE 0]]

Datasets(counts) ==
  {NoRoot} \cup
  {Root(e, c) : e \in {f \in [Names -> Kinds] : Deviations(f) <= MaxDeviations},
                c \in counts}

----------------------------------------------------------------------------
(* validate_dataset *)

\* The positions of SOIL_TYPES whose path exists but is not a directory:
\* os.path.exists is true there and os.listdir raises NotADirectoryError.
FilePositions(d) == {i \in 1..NUM_CLASSES : d.entry[SOIL_TYPES[i]] = "file"}

found_classes(d) == {n \in Names : d.entry[n] # "absent"}

ValidationResult(d) ==
  IF ~d.root
    THEN [err |-> "FileNotFoundError", missing |-> {}]
  ELSE IF FilePositions(d) # {}
    THEN [err |-> "NotADirectoryError", missing |-> {}]
  ELSE IF Names \ found_classes(d) # {}
    THEN [err |-> "ValueError: Missing soil type directories",
          missing |-> Names \ found_classes(d)]
  ELSE [err |-> "none", missing |-> {}]

----------------------------------------------------------------------------
(* create_data_generators *)

\* Directory names in the order sorted() gives them.
Alphabetical == <<"chalk", "clay", "loam", "peat", "sandy", "silt">>

IsDir(d, n) == d.entry[n] = "dir"

\* flow_from_directory without classes=: the subdirectories of the root,
\* sorted by name, numbered in that order.
ResolvedOrder(d) == SelectSeq(Alphabetical, LAMBDA n : IsDir(d, n))

\* subset='validation' takes the first int(validation_split * n) files of
\* each class.
ValidationCount(n) == (n * VALIDATION_SPLIT_PERCENT) \div 100

RECURSIVE Repeat(_, _)
Repeat(x, n) == IF n = 0 THEN <<>> ELSE <<x>> \o Repeat(x, n - 1)

RECURSIVE ClassesFrom(_, _, _)
ClassesFrom(d, order, i) ==
  IF i > Len(order) THEN <<>>
  ELSE Repeat(i, ValidationCount(d.images[order[i]]))
         \o ClassesFrom(d, order, i + 1)

\* validation_generator.classes: shuffle=False, so by class index.
ValidationClasses(d) == ClassesFrom(d, ResolvedOrder(d), 1)

----------------------------------------------------------------------------
(* main *)

ExitFailed(e) ==
  /\ pc' = "failed"
  /\ err' = e

\* trainer.validate_dataset()
validate_dataset ==
  /\ pc = "validate"
  /\ LET r == ValidationResult(data) IN
       /\ missing_classes' = r.missing
       /\ IF r.err = "none"
            THEN pc' = "generators" /\ err' = err
            ELSE ExitFailed(r.err)
  /\ UNCHANGED <<data, args, env, EPOCHS, BATCH_SIZE, class_indices,
                 val_classes, built, weights, lr, stop_training, epoch, es,
                 rlr, mc, history, evaluation, files, coreml>>
  /\ UNCHANGED converter_vars

\* trainer.create_data_generators(): ImageDataGenerator is constructed with
\* contrast_range=, a keyword the installed Keras may not accept.
create_data_generators ==
  /\ pc = "generators"
  /\ IF env.kwargs_ok
       THEN /\ class_indices' = ResolvedOrder(data)
            /\ val_classes' = ValidationClasses(data)
            /\ pc' = "build"
            /\ err' = err
       ELSE /\ ExitFailed("TypeError: contrast_range")
            /\ UNCHANGED <<class_indices, val_classes>>
  /\ UNCHANGED <<data, args, env, missing_classes, EPOCHS, BATCH_SIZE, built,
                 weights, lr, stop_training, epoch, es, rlr, mc, history,
                 evaluation, files, coreml>>
  /\ UNCHANGED converter_vars

\* trainer.build_model()
build_model ==
  /\ pc = "build"
  /\ built' = TRUE
  /\ weights' = InitialWeights
  /\ lr' = INITIAL_LR
  /\ pc' = "fit"
  /\ UNCHANGED <<data, args, env, err, missing_classes, EPOCHS, BATCH_SIZE,
                 class_indices, val_classes, stop_training, epoch, es, rlr,
                 mc, history, evaluation, files, coreml>>
  /\ UNCHANGED converter_vars

----------------------------------------------------------------------------
(* What the model predicts, and the validation pass *)

\* arg-max of the output vector for a sample of true class t.
Predict(w, t) == IF t <= w.skill THEN t ELSE 1

\* validation_steps = max(1, samples // BATCH_SIZE)
ValidationSteps(samples, batch) == Max2(1, samples \div batch)

\* The samples that `steps` batches of a generator of `samples` hold.
PredictedCount(samples, batch) ==
  IF ValidationSteps(samples, batch) * batch <= samples
    THEN ValidationSteps(samples, batch) * batch
    ELSE samples

\* true_classes = validation_generator.classes[:len(predicted_classes)]
TrueClasses(classes, batch) ==
  SubSeq(classes, 1, PredictedCount(Len(classes), batch))

Matches(w, true) == {i \in 1..Len(true) : Predict(w, true[i]) = true[i]}

\* val_accuracy of one validation pass, as the number of exact matches
\* among the samples of validation_steps batches.
ValAccuracy(w, classes, batch) ==
  Cardinality(Matches(w, TrueClasses(classes, batch)))

----------------------------------------------------------------------------
(* The callbacks of setup_callbacks, in the order of the list *)

\* EarlyStopping(monitor='val_loss'): min_delta defaults to 0.
ES_Improved(current, best) == current < best

ES_Stops(wait, epoch_index) == wait >= ES_PATIENCE /\ epoch_index > 0

\* Mutant: restore_best_weights left False.
ES_Restore_Off(w, best_weights) == w

\* restore_best_weights=True, when the callback stops the run.
ES_Restore(w, best_weights) == best_weights

\* on_epoch_end(epoch_index, val_loss) with the model holding w.
ES_OnEpochEnd(s, current, w, epoch_index, restore_on) ==
  LET held == IF s.best_weights = NoWeights THEN w ELSE s.best_weights
      improved == ES_Improved(current, s.best)
      wait == IF improved THEN 0 ELSE s.wait + 1
      best_weights == IF improved THEN w ELSE held
      stops == ES_Stops(wait, epoch_index)
  IN [es |-> [best |-> IF improved THEN current ELSE s.best,
              wait |-> wait,
              best_weights |-> best_weights,
              stopped_epoch |-> IF stops THEN epoch_index
                                ELSE s.stopped_epoch],
      stop |-> stops,
      weights |-> IF stops /\ restore_on = "on_epoch_end"
                    THEN ES_Restore(w, best_weights) ELSE w]

\* on_train_end: Keras 3 restores the best weights here.
ES_OnTrainEnd(s, w, restore_on) ==
  IF restore_on = "on_train_end" /\ s.best_weights # NoWeights
    THEN ES_Restore(w, s.best_weights) ELSE w

\* Mutant: min_delta taken to be 0.
RLR_Improved_NoDelta(current, best) == current < best

\* ReduceLROnPlateau(monitor='val_loss'): min_delta defaults to 1e-4.
RLR_Improved(current, best) == current < best - LossResolution

\* new_lr = max(old_lr * factor, min_lr), factor=0.5
ReducedLR(old_lr) == Max2(old_lr \div 2, MIN_LR)

RLR_OnEpochEnd(r, current, old_lr) ==
  IF RLR_Improved(current, r.best)
    THEN [rlr |-> [best |-> current, wait |-> 0], lr |-> old_lr]
  ELSE IF r.wait + 1 >= RLR_PATIENCE /\ old_lr > MIN_LR
    THEN [rlr |-> [best |-> r.best, wait |-> 0], lr |-> ReducedLR(old_lr)]
  ELSE [rlr |-> [best |-> r.best, wait |-> r.wait + 1], lr |-> old_lr]

\* ModelCheckpoint(monitor='val_accuracy', save_best_only=True)
MC_Improved(current, best) == current > best

\* The model is saved as it is when this callback runs: after
\* EarlyStopping, which precedes it in the list.
MC_OnEpochEnd(m, current, w, ckpt) ==
  IF MC_Improved(current, m.best)
    THEN [mc |-> [best |-> current], ckpt |-> [exists |-> TRUE, weights |-> w]]
    ELSE [mc |-> m, ckpt |-> ckpt]

\* The History callback: the epochs run, the last val_loss, and where
\* val_loss was lowest and val_accuracy highest first.
Record(h, loss, acc) ==
  [epochs |-> h.epochs + 1,
   val_loss |-> loss,
   min_loss |-> IF loss < h.min_loss THEN loss ELSE h.min_loss,
   min_loss_epoch |-> IF loss < h.min_loss THEN h.epochs + 1
                      ELSE h.min_loss_epoch,
   max_acc |-> IF acc > h.max_acc THEN acc ELSE h.max_acc,
   max_acc_epoch |-> IF acc > h.max_acc THEN h.epochs + 1
                     ELSE h.max_acc_epoch]

----------------------------------------------------------------------------
(* train_model: self.model.fit(..., epochs=EPOCHS, callbacks=callbacks) *)

\* Mutant: the loop does not stop at the budget.
FitRunning_NoBudget == pc = "fit" /\ ~stop_training

\* for epoch in range(EPOCHS): ... if self.stop_training: break
FitRunning == pc = "fit" /\ epoch < EPOCHS /\ ~stop_training

\* One epoch: the training pass leaves the parameter set w, the validation
\* pass measures it, the callbacks run in list order.
fit_epoch ==
  /\ FitRunning
  /\ \E loss \in env.loss_levels, skill \in env.skill_levels :
       LET w == Weights(epoch + 1, skill)
           acc == ValAccuracy(w, val_classes, BATCH_SIZE)
           e == ES_OnEpochEnd(es, loss, w, epoch, env.restore_on)
           r == RLR_OnEpochEnd(rlr, loss, lr)
           m == MC_OnEpochEnd(mc, acc, e.weights, files.ckpt)
       IN /\ es' = e.es
          /\ weights' = e.weights
          /\ stop_training' = e.stop
          /\ rlr' = r.rlr
          /\ lr' = r.lr
          /\ mc' = m.mc
          /\ files' = [files EXCEPT !.ckpt = m.ckpt]
          /\ history' = Record(history, loss, acc)
  /\ epoch' = epoch + 1
  /\ UNCHANGED <<data, args, env, pc, err, missing_classes, EPOCHS,
                 BATCH_SIZE, class_indices, val_classes, built, evaluation,
                 coreml>>
  /\ UNCHANGED converter_vars

\* A batch that does not fit the declared input shape (or any other
\* exception inside fit) propagates to main().
fit_abort ==
  /\ FitRunning
  /\ ExitFailed("fatal error in fit")
  /\ UNCHANGED <<data, args, env, missing_classes, EPOCHS, BATCH_SIZE,
                 class_indices, val_classes, built, weights, lr,
                 stop_training, epoch, es, rlr, mc, history, evaluation,
                 files, coreml>>
  /\ UNCHANGED converter_vars

\* The epoch loop is over: on_train_end runs, fit returns the history and
\* the callbacks list goes out of scope.
fit_return ==
  /\ pc = "fit"
  /\ epoch = EPOCHS \/ stop_training
  /\ weights' = ES_OnTrainEnd(es, weights, env.restore_on)
  /\ es' = EarlyStoppingInit
  /\ rlr' = ReduceLRInit
  /\ mc' = ModelCheckpointInit
  /\ pc' = "evaluate"
  /\ UNCHANGED <<data, args, env, err, missing_classes, EPOCHS, BATCH_SIZE,
                 class_indices, val_classes, built, lr, stop_training, epoch,
                 history, evaluation, files, coreml>>
  /\ UNCHANGED converter_vars

----------------------------------------------------------------------------
(* evaluate_model *)

Predictions(w, true) == [i \in 1..Len(true) |-> Predict(w, true[i])]

\* sklearn infers the label set from the values that occur.
LabelsPresent(true, predicted) == Range(true) \cup Range(predicted)

\* confusion_matrix(true_classes, predicted_classes): rows are true labels,
\* columns predicted labels.
ConfusionMatrix(true, predicted) ==
  [t \in LabelsPresent(true, predicted), q \in LabelsPresent(true, predicted)
     |-> Cardinality({i \in 1..Len(true) : true[i] = t /\ predicted[i] = q})]

\* classification_report(..., target_names=class_labels) raises ValueError
\* when the labels that occur are not as many as the target names.
ReportRaises(true, predicted, class_labels) ==
  Cardinality(LabelsPresent(true, predicted)) # Len(class_labels)

EvaluationResult(w, classes, batch) ==
  LET true == TrueClasses(classes, batch)
      predicted == Predictions(w, true)
  IN [done |-> TRUE,
      correct |-> Cardinality({i \in 1..Len(true) : true[i] = predicted[i]}),
      total |-> Len(true),
      labels |-> LabelsPresent(true, predicted),
      cm |-> ConfusionMatrix(true, predicted)]

\* trainer.evaluate_model(validation_generator)
evaluate_model ==
  /\ pc = "evaluate"
  /\ LET true == TrueClasses(val_classes, BATCH_SIZE)
         predicted == Predictions(weights, true)
     IN IF ReportRaises(true, predicted, class_indices)
          THEN /\ ExitFailed("ValueError: classification_report")
               /\ UNCHANGED evaluation
          ELSE /\ evaluation' =
                    EvaluationResult(weights, val_classes, BATCH_SIZE)
               /\ pc' = "save"
               /\ err' = err
  /\ UNCHANGED <<data, args, env, missing_classes, EPOCHS, BATCH_SIZE,
                 class_indices, val_classes, built, weights, lr,
                 stop_training, epoch, es, rlr, mc, history, files, coreml>>
  /\ UNCHANGED converter_vars

----------------------------------------------------------------------------
(* save_model_and_metadata *)

Metadata == [state |-> "complete", soil_types |-> SOIL_TYPES,
             num_classes |-> NUM_CLASSES, epochs |-> EPOCHS,
             batch_size |-> BATCH_SIZE]

\* open(metadata_path, 'w') has truncated or created the file and json.dump
\* has written part of the record.
PartialMetadata == [Metadata EXCEPT !.state = "partial"]

\* self.model.save(model_path)
SavedModel(w) == [exists |-> TRUE, weights |-> w]

\* Both writes succeed.
save_model_and_metadata ==
  /\ pc = "save"
  /\ files' = [files EXCEPT !.model = SavedModel(weights), !.meta = Metadata]
  /\ pc' = "convert"
  /\ UNCHANGED <<data, args, env, err, missing_classes, EPOCHS, BATCH_SIZE,
                 class_indices, val_classes, built, weights, lr,
                 stop_training, epoch, es, rlr, mc, history, evaluation,
                 coreml>>
  /\ UNCHANGED converter_vars

\* The model is written; the metadata write is cut short (an I/O error
\* inside json.dump, or the process is killed): what was written stays at
\* metadata_path.
save_metadata_interrupted ==
  /\ pc = "save"
  /\ files' = [files EXCEPT !.model = SavedModel(weights),
                            !.meta = PartialMetadata]
  /\ ExitFailed("OSError: metadata write")
  /\ UNCHANGED <<data, args, env, missing_classes, EPOCHS, BATCH_SIZE,
                 class_indices, val_classes, built, weights, lr,
                 stop_training, epoch, es, rlr, mc, history, evaluation,
                 coreml>>
  /\ UNCHANGED converter_vars

----------------------------------------------------------------------------
(* SoilClassifierTrainer.convert_to_coreml *)

\* ct.ClassifierConfig(class_labels=SOIL_TYPES) on the model loaded from
\* soil_classifier_model.h5.
Bundle(model_file) ==
  [exists |-> TRUE, labels |-> SOIL_TYPES, weights |-> model_file.weights]

convert_to_coreml ==
  /\ pc = "convert"
  /\ files' = [files EXCEPT !.bundle = Bundle(files.model)]
  /\ coreml' = "True"
  /\ pc' = "done"
  /\ UNCHANGED <<data, args, env, err, missing_classes, EPOCHS, BATCH_SIZE,
                 class_indices, val_classes, built, weights, lr,
                 stop_training, epoch, es, rlr, mc, history, evaluation>>
  /\ UNCHANGED converter_vars

\* Mutant: the exception of a failed conversion is not caught and reaches
\* main()'s except clause.
convert_to_coreml_raises ==
  /\ pc = "convert"
  /\ ExitFailed("Exception in convert_to_coreml")
  /\ UNCHANGED <<data, args, env, missing_classes, EPOCHS, BATCH_SIZE,
                 class_indices, val_classes, built, weights, lr,
                 stop_training, epoch, es, rlr, mc, history, evaluation,
                 files, coreml>>
  /\ UNCHANGED converter_vars

\* coremltools is not installed (ImportError) or load_model / ct.convert /
\* save raises: the except clauses print and return False, and main() goes
\* on to report success.
convert_to_coreml_fails ==
  /\ pc = "convert"
  /\ coreml' = "False"
  /\ pc' = "done"
  /\ UNCHANGED <<data, args, env, err, missing_classes, EPOCHS, BATCH_SIZE,
                 class_indices, val_classes, built, weights, lr,
                 stop_training, epoch, es, rlr, mc, history, evaluation,
                 files>>
  /\ UNCHANGED converter_vars

----------------------------------------------------------------------------
(* convert_to_coreml.py: the standalone converter *)

\* A path is the sequence of its characters. <<>> stands for an argument
\* that was not given (None).
NoPath == <<>>

PathChars == {"m", ".", "h", "5"}

Paths == UNION {[1..n -> PathChars] : n \in 1..MaxPathLen}

H5 == <<".", "h", "5">>

MLMODEL == <<".", "m", "l", "m", "o", "d", "e", "l">>

\* coremltools' _MLPACKAGE_EXTENSION
MLPACKAGE == <<".", "m", "l", "p", "a", "c", "k", "a", "g", "e">>

\* sample_path in create_sample_model
SAMPLE_PATH ==
  <<".", "/", "s", "a", "m", "p", "l", "e", "_", "s", "o", "i", "l", "_",
  "m", "o", "d", "e", "l", ".", "h", "5">>

\* output_path="SampleSoilClassifier.mlmodel" in main
SAMPLE_OUTPUT_PATH ==
  <<"S", "a", "m", "p", "l", "e", "S", "o", "i", "l", "C", "l", "a", "s",
  "s", "i", "f", "i", "e", "r", ".", "m", "l", "m", "o", "d", "e", "l">>

\* Destinations a user may pass as --output_path.
GivenOutputPaths == {<<"o">> \o MLMODEL, <<"o">> \o MLPACKAGE}

\* str.replace(old, new): every non-overlapping occurrence, from the left.
RECURSIVE Replace(_, _, _)
Replace(s, old, new) ==
  IF Len(s) < Len(old) THEN s
  ELSE IF SubSeq(s, 1, Len(old)) = old
         THEN new \o Replace(SubSeq(s, Len(old) + 1, Len(s)), old, new)
         ELSE <<Head(s)>> \o Replace(Tail(s), old, new)

\* if output_path is None: output_path = model_path.replace('.h5', '.mlmodel')
DerivedOutputPath(model_path, given) ==
  IF given = NoPath THEN Replace(model_path, H5, MLMODEL) ELSE given

\* os.path.splitext(path)[1]: from the last dot of the last component, unless
\* that dot is one of its leading dots.
LastSlash(p) ==
  LET at == {i \in 1..Len(p) : p[i] = "/"}
  IN IF at = {} THEN 0 ELSE CHOOSE i \in at : \A k \in at : k <= i

LastDot(p) ==
  LET at == {i \in (LastSlash(p) + 1)..Len(p) : p[i] = "."}
  IN IF at = {} THEN 0 ELSE CHOOSE i \in at : \A k \in at : k <= i

LeadingDots(p) ==
  LET notdot == {i \in (LastSlash(p) + 1)..Len(p) : p[i] # "."}
  IN IF notdot = {} THEN Len(p)
     ELSE (CHOOSE i \in notdot : \A k \in notdot : i <= k) - 1

Ext(p) ==
  IF LastDot(p) > LeadingDots(p) THEN SubSeq(p, LastDot(p), Len(p))
  ELSE <<>>

\* What a path holds: a model Keras can load, some other file, or a bundle
\* with its class labels.
KerasModelFile == [kind |-> "keras model", labels |-> <<>>]

OtherFile == [kind |-> "other", labels |-> <<>>]

BundleFile(class_labels) == [kind |-> "bundle", labels |-> class_labels]

\* os.path.exists
Exists(f, path) == path \in DOMAIN f

\* A file written at path replaces what was there.
Write(f, path, content) ==
  [q \in DOMAIN f \cup {path} |-> IF q = path THEN content ELSE f[q]]

\* What convert_to_coreml returns.
NotCalled == [kind |-> "not called", path |-> NoPath]

ReturnedNone == [kind |-> "None", path |-> NoPath]

ReturnedPath(path) == [kind |-> "path", path |-> path]

\* class_labels when none are passed
DEFAULT_CLASS_LABELS == <<"clay", "loam", "sandy", "silt", "peat", "chalk">>

\* Where coreml_model.save(output_path) writes, NoPath when it raises. An
\* ML Program is a package: coremltools appends .mlpackage to a path
\* without extension and refuses any other extension; a coremltools that
\* writes a model file writes it at the path it is given.
SaveTarget(path, save_rule) ==
  IF save_rule = "as given" THEN path
  ELSE IF Ext(path) = <<>> THEN path \o MLPACKAGE
  ELSE IF Ext(path) = MLPACKAGE THEN path
  ELSE NoPath

\* The try block of convert_to_coreml: load_model, ct.convert, save,
\* os.path.getsize(output_path); any exception is printed and None is
\* returned. test_coreml_model only reads and prints.
ConversionResult(f, model_path, out, class_labels, e) ==
  LET loaded == Exists(f, model_path) /\ f[model_path].kind = "keras model"
      target == SaveTarget(out, e.save_rule)
      g == Write(f, target, BundleFile(class_labels))
  IN IF ~loaded \/ ~e.convert_ok \/ target = NoPath
       THEN [fs |-> f, returned |-> ReturnedNone]
     ELSE IF ~Exists(g, out)
       THEN [fs |-> g, returned |-> ReturnedNone]
     ELSE [fs |-> g, returned |-> ReturnedPath(out)]

\* convert_to_coreml.py has not been started.
ConverterNotRun ==
  /\ cargs = [model_path |-> NoPath, output_path |-> NoPath,
              create_sample |-> FALSE]
  /\ cenv = [convert_ok |-> TRUE, save_rule |-> "as given"]
  /\ cpc = "not run"
  /\ call = [model_path |-> NoPath, output_path |-> NoPath]
  /\ output_path = NoPath
  /\ fs = <<>>
  /\ returned = NotCalled

\* sys.exit(1) in main
ConverterExit(status) ==
  /\ cpc' = status
  /\ UNCHANGED <<call, output_path, fs, returned>>

\* main() up to the call of convert_to_coreml
converter_main ==
  /\ cpc = "main"
  /\ IF cargs.create_sample
       THEN /\ fs' = Write(fs, SAMPLE_PATH, KerasModelFile)
            /\ call' = [model_path |-> SAMPLE_PATH,
                        output_path |-> SAMPLE_OUTPUT_PATH]
            /\ cpc' = "convert"
            /\ UNCHANGED <<output_path, returned>>
       ELSE IF cargs.model_path # NoPath
         THEN IF ~Exists(fs, cargs.model_path)
                THEN ConverterExit("exit 1")
                ELSE /\ call' = [model_path |-> cargs.model_path,
                                 output_path |-> cargs.output_path]
                     /\ cpc' = "convert"
                     /\ UNCHANGED <<output_path, fs, returned>>
         ELSE ConverterExit("exit 1")
  /\ UNCHANGED <<cargs, cenv>>
  /\ UNCHANGED trainer_vars

\* convert_to_coreml(model_path, output_path, class_labels), and main()
\* returning after it.
standalone_convert_to_coreml ==
  /\ cpc = "convert"
  /\ LET out == DerivedOutputPath(call.model_path, call.output_path)
         r == ConversionResult(fs, call.model_path, out,
                               DEFAULT_CLASS_LABELS, cenv)
     IN /\ output_path' = out
        /\ fs' = r.fs
        /\ returned' = r.returned
  /\ cpc' = "exit 0"
  /\ UNCHANGED <<cargs, cenv, call>>
  /\ UNCHANGED trainer_vars

----------------------------------------------------------------------------
(* main *)

\* parse_args, the update of the globals, SoilClassifierTrainer(...)
main ==
  /\ pc = "main"
  /\ EPOCHS' = args.epochs
  /\ BATCH_SIZE' = args.batch_size
  /\ pc' = "validate"
  /\ UNCHANGED <<data, args, env, err, missing_classes, class_indices,
                 val_classes, built, weights, lr, stop_training, epoch, es,
                 rlr, mc, history, evaluation, files, coreml>>
  /\ UNCHANGED converter_vars

InitWith(datasets, budgets, batches, losses, skills) ==
  /\ data \in datasets
  /\ args \in [epochs : budgets, batch_size : batches]
  /\ env \in [kwargs_ok : BOOLEAN,
              restore_on : {"on_epoch_end", "on_train_end"},
              loss_levels : {losses}, skill_levels : {skills}]
  /\ pc = "main"
  /\ err = "none"
  /\ missing_classes = {}
  /\ EPOCHS = DEFAULT_EPOCHS
  /\ BATCH_SIZE = DEFAULT_BATCH_SIZE
  /\ class_indices = <<>>
  /\ val_classes = <<>>
  /\ built = FALSE
  /\ weights = NoWeights
  /\ lr = 0
  /\ stop_training = FALSE
  /\ epoch = 0
  /\ es = EarlyStoppingInit
  /\ rlr = ReduceLRInit
  /\ mc = ModelCheckpointInit
  /\ history = EmptyHistory
  /\ evaluation = NoEvaluation
  /\ files = [ckpt |-> NoFile, model |-> NoFile, meta |-> NoMeta,
              bundle |-> NoBundle]
  /\ coreml = "not run"
  /\ ConverterNotRun

\* Validation losses a run may measure: two within min_delta of each other
\* and one further away.
ShortLosses == {0, 1, LossResolution + 2}

\* Losses that all lie within min_delta of each other, and one further away.
LongLosses == 0 .. (LossResolution + 1)

Init ==
  InitWith(Datasets({SmallImages, LargeImages}), {SmallBudget, MidBudget},
           {SmallBatch, DEFAULT_BATCH_SIZE}, ShortLosses, {1, NUM_CLASSES})

Next ==
  \/ main
  \/ validate_dataset
  \/ create_data_generators
  \/ build_model
  \/ fit_epoch
  \/ fit_abort
  \/ fit_return
  \/ evaluate_model
  \/ save_model_and_metadata
  \/ save_metadata_interrupted
  \/ convert_to_coreml
  \/ convert_to_coreml_fails

Spec == Init /\ [][Next]_vars

\* Long runs: a complete dataset and a budget that lets the learning rate
\* reach its floor.
InitLong ==
  InitWith({NoRoot, Root([n \in Names |-> "dir"], LargeImages)},
           {LongBudget}, {DEFAULT_BATCH_SIZE}, LongLosses, {NUM_CLASSES})

SpecLong == InitLong /\ [][Next]_vars

\* main() is one sequential thread: it keeps taking steps until it exits.
InitFair ==
  InitWith({NoRoot, Root([n \in Names |-> "dir"], LargeImages)},
           {SmallBudget, MidBudget}, {SmallBatch}, ShortLosses,
           {NUM_CLASSES})

FairSpec == InitFair /\ [][Next]_vars /\ WF_vars(Next)

\* train_model.py stays unstarted while convert_to_coreml.py runs.
TrainerNotRun ==
  /\ data = NoRoot
  /\ args = [epochs |-> DEFAULT_EPOCHS, batch_size |-> DEFAULT_BATCH_SIZE]
  /\ env = [kwargs_ok |-> TRUE, restore_on |-> "on_epoch_end",
            loss_levels |-> ShortLosses, skill_levels |-> {NUM_CLASSES}]
  /\ pc = "not run"
  /\ err = "none"
  /\ missing_classes = {}
  /\ EPOCHS = DEFAULT_EPOCHS
  /\ BATCH_SIZE = DEFAULT_BATCH_SIZE
  /\ class_indices = <<>>
  /\ val_classes = <<>>
  /\ built = FALSE
  /\ weights = NoWeights
  /\ lr = 0
  /\ stop_training = FALSE
  /\ epoch = 0
  /\ es = EarlyStoppingInit
  /\ rlr = ReduceLRInit
  /\ mc = ModelCheckpointInit
  /\ history = EmptyHistory
  /\ evaluation = NoEvaluation
  /\ files = [ckpt |-> NoFile, model |-> NoFile, meta |-> NoMeta,
              bundle |-> NoBundle]
  /\ coreml = "not run"

\* A run of convert_to_coreml.py: its command line, the coremltools that is
\* installed, and what the source model path holds.
InitStandalone ==
  /\ TrainerNotRun
  /\ cargs \in [model_path : Paths \cup {NoPath},
                 output_path : GivenOutputPaths \cup {NoPath},
                 create_sample : BOOLEAN]
  /\ cargs.create_sample => cargs.model_path = NoPath
  /\ cenv \in [convert_ok : BOOLEAN, save_rule : {"as given", "package"}]
  /\ cpc = "main"
  /\ call = [model_path |-> NoPath, output_path |-> NoPath]
  /\ output_path = NoPath
  /\ \/ fs = <<>>
     \/ /\ cargs.model_path # NoPath
        /\ \E content \in {KerasModelFile, OtherFile} :
             fs = Write(<<>>, cargs.model_path, content)
  /\ returned = NotCalled

NextConvert ==
  \/ converter_main
  \/ standalone_convert_to_coreml

\* The two ways a conversion is run: as the last step of train_model.py,
\* and by convert_to_coreml.py on its own.
InitConversion == InitFair \/ InitStandalone

NextConversion == Next \/ NextConvert

SpecConversion == InitConversion /\ [][NextConversion]_vars

\* Where the epoch loop of fit stands.
OrchestratorState ==
  IF ~built THEN "NotStarted"
  ELSE IF err = "fatal error in fit" THEN "Aborted"
  ELSE IF FitRunning THEN "Running"
  ELSE IF stop_training THEN "StoppedEarly"
  ELSE "Exhausted"

----------------------------------------------------------------------------
(* Properties *)

PastValidation == pc \notin {"main", "validate"}

\* The categories of SOIL_TYPES that have no subdirectory under the root.
NoSubdirectory == {n \in Names : data.entry[n] # "dir"}

NothingAfterValidation ==
  /\ class_indices = <<>>
  /\ ~built
  /\ epoch = 0
  /\ ~evaluation.done
  /\ ~files.ckpt.exists /\ ~files.model.exists /\ ~files.bundle.exists
  /\ files.meta.state = "absent"
  /\ coreml = "not run"

\* C1: for a dataset root that exists but lacks one or more category
\* subdirectories, validate_dataset fails with the missing-categories error
\* naming exactly the categories without a subdirectory, and main() runs no
\* later stage.
C1_Claim ==
  (PastValidation /\ data.root /\ NoSubdirectory # {}) =>
     /\ pc = "failed"
     /\ err = "ValueError: Missing soil type directories"
     /\ missing_classes = NoSubdirectory
     /\ NothingAfterValidation

\* C2: once training and conversion have completed, the label at every
\* position of the bundle's label list is the category the data pipeline
\* assigned to that index.
C2_Claim ==
  files.bundle.exists =>
     /\ Len(files.bundle.labels) = Len(class_indices)
     /\ \A i \in 1..Len(class_indices) :
          files.bundle.labels[i] = class_indices[i]

OrderDisagrees == class_indices # <<>> /\ class_indices # SOIL_TYPES

\* C3: when the order resolved by the data pipeline disagrees with
\* SOIL_TYPES, no training epoch is ever run.
C3_Claim == OrderDisagrees => epoch = 0

\* Epochs since the epoch with the lowest validation loss.
SinceBest == history.epochs - history.min_loss_epoch

\* C4: when validation loss has not improved for ES_PATIENCE consecutive
\* epochs the run is stopped early, the model leaves fit with the
\* parameters of the epoch with the lowest validation loss, and the model
\* file that is then written holds those parameters.
C4_Theorem ==
  /\ SinceBest >= ES_PATIENCE => stop_training
  /\ (stop_training /\ pc # "fit") => weights.ep = history.min_loss_epoch
  /\ (stop_training /\ files.model.exists) =>
        files.model.weights.ep = history.min_loss_epoch

\* A run stopped early whose saved model is older than its last epoch.
C4_Witness ==
  /\ stop_training
  /\ files.model.exists
  /\ files.model.weights.ep < epoch

Ended == pc \in {"done", "failed"}

C5_Safety ==
  /\ epoch <= EPOCHS
  /\ history.epochs = epoch
  /\ OrchestratorState = "Exhausted" =>
        (epoch = EPOCHS /\ ~stop_training /\ SinceBest < ES_PATIENCE)
  /\ OrchestratorState = "StoppedEarly" =>
        (stop_training /\ SinceBest >= ES_PATIENCE)
  /\ (built /\ pc # "fit" /\ OrchestratorState # "Aborted" /\ epoch = EPOCHS
        /\ SinceBest < ES_PATIENCE) => OrchestratorState = "Exhausted"

ValidDataset == data.root /\ NoSubdirectory = {}

EnvironmentFault == err \in {"fatal error in fit", "OSError: metadata write"}

\* C6: with a complete six-category dataset and a budget below the
\* early-stop patience, the run ends Exhausted after exactly the budget's
\* epochs, with the model file and a metadata file whose num_classes is 6.
C6_Claim ==
  (Ended /\ ValidDataset /\ args.epochs < ES_PATIENCE /\ ~EnvironmentFault) =>
     /\ pc = "done"
     /\ OrchestratorState = "Exhausted"
     /\ epoch = args.epochs
     /\ files.model.exists
     /\ files.meta.state = "complete"
     /\ files.meta.num_classes = 6

EpochStep == pc = "fit" /\ epoch' = epoch + 1

\* The early-stopping counter follows the validation loss alone.
ES_CounterAlone ==
  es'.wait = IF history'.val_loss < history.min_loss THEN 0 ELSE es.wait + 1

\* C7 as stated: the decay counter is reset whenever the validation loss
\* improves or the decay fires; after RLR_PATIENCE epochs without
\* improvement the rate is halved, never below MIN_LR; the early-stopping
\* counter is not affected.
C7_Claim ==
  [][EpochStep =>
       /\ lr' >= MIN_LR
       /\ history'.val_loss < history.min_loss => rlr'.wait = 0
       /\ lr' # lr => (rlr'.wait = 0 /\ lr' = Max2(lr \div 2, MIN_LR))
       /\ (rlr.wait + 1 >= RLR_PATIENCE /\ lr > MIN_LR
             /\ history'.val_loss >= history.min_loss) => lr' < lr
       /\ ES_CounterAlone]_vars

\* The loss improves on the decay control's best by more than min_delta.
DecayImproves == history'.val_loss < rlr.best - LossResolution

\* C7, amended: the decay counter is reset when the validation loss
\* improves on the decay control's best by more than min_delta (1e-4) or
\* the decay fires, and counts the epoch otherwise; at RLR_PATIENCE such
\* epochs the rate is halved, never below MIN_LR; the early-stopping
\* counter is not affected.
C7_Theorem ==
  [][EpochStep =>
       /\ lr' >= MIN_LR
       /\ DecayImproves => (rlr'.wait = 0 /\ lr' = lr)
       /\ lr' # lr => (rlr'.wait = 0 /\ lr' = Max2(lr \div 2, MIN_LR))
       /\ (rlr.wait + 1 >= RLR_PATIENCE /\ lr > MIN_LR /\ ~DecayImproves)
             => lr' < lr
       /\ (~DecayImproves /\ lr' = lr) => rlr'.wait = rlr.wait + 1
       /\ ES_CounterAlone]_vars

\* The rate is at its floor after improvements that the decay control did
\* not count.
C7_Witness == pc = "fit" /\ lr = MIN_LR /\ es.best < rlr.best

\* C8: the checkpoint holds the parameters of the epoch with the best
\* validation accuracy so far.
C8_Claim ==
  files.ckpt.exists => files.ckpt.weights.ep = history.max_acc_epoch

RECURSIVE SetSum(_, _)
SetSum(f, S) ==
  IF S = {} THEN 0
  ELSE LET x == CHOOSE y \in S : TRUE IN f[x] + SetSum(f, S \ {x})

RowSum(ev, c) ==
  IF c \in ev.labels
    THEN SetSum([q \in ev.labels |-> ev.cm[c, q]], ev.labels)
    ELSE 0

Trace(ev) == SetSum([c \in ev.labels |-> ev.cm[c, c]], ev.labels)

MatrixTotal(ev) == SetSum([c \in ev.labels |-> RowSum(ev, c)], ev.labels)

TrueCount(c) ==
  Cardinality({i \in 1..Len(val_classes) : val_classes[i] = c})

\* C9: every row of the confusion matrix sums to the number of validation
\* samples of that true category, and trace / total is the reported
\* accuracy.
C9_Claim ==
  evaluation.done =>
     /\ \A c \in 1..NUM_CLASSES : RowSum(evaluation, c) = TrueCount(c)
     /\ Trace(evaluation) * evaluation.total =
          evaluation.correct * MatrixTotal(evaluation)

\* C10: the file at the metadata path is absent or a complete record.
C10_Claim == files.meta.state \in {"absent", "complete"}

\* C11: once a fatal error inside fit has aborted the run, the output
\* directory holds no checkpoint file, no model file and no metadata file
\* of that run, and the run is over (no retry).
C11_Claim ==
  err = "fatal error in fit" =>
     /\ pc = "failed"
     /\ ~files.ckpt.exists
     /\ ~files.model.exists
     /\ files.meta.state = "absent"

\* A step in which the trainer's conversion ends without a bundle.
TrainerConversionFailed ==
  pc = "convert" /\ pc' # "convert" /\ ~files'.bundle.exists

\* A step in which the standalone conversion of a model that coremltools
\* cannot convert ends.
StandaloneConversionFailed ==
  cpc = "convert" /\ cpc' # "convert" /\ ~cenv.convert_ok

C13_Claim ==
  (returned # NotCalled /\ call.output_path = NoPath) =>
     /\ output_path # call.model_path
     /\ fs[call.model_path].kind # "bundle"

====
